---- MODULE Spec2Model ----
(***************************************************************************)
(* State-machine model of TaskManager.py: the Task entity, the TaskManager *)
(* store (task_list in memory, tasks.json on disk) and its operations.     *)
(* Strings that the code only compares are TLA+ strings; due dates, which  *)
(* the code parses with strptime, are sequences of one-character strings.  *)
(***************************************************************************)
EXTENDS Integers, Sequences, FiniteSets, TLC

VARIABLES task_list, file, uuids, last

vars == <<task_list, file, uuids, last>>

(***************************************************************************)
(* Bounds of the exploration.                                              *)
(***************************************************************************)
MaxTasks == 2
MaxUuid == 2

(***************************************************************************)
(* Text constants used as inputs.                                          *)
(***************************************************************************)
None == "<None>"

D_2024_01_10 == <<"2","0","2","4","-","0","1","-","1","0">>
D_slashes == <<"2","0","2","4","/","0","1","/","0","1">>
D_2024_02_30 == <<"2","0","2","4","-","0","2","-","3","0">>

TitleInputs == {"A", "B"}
PriorityInputs == {"Low", "Urgent"}
DueDateInputs == {D_2024_01_10, D_slashes, D_2024_02_30}
UuidNames == <<"u1", "u2", "u3", "u4", "u5", "u6", "u7", "u8">>

(***************************************************************************)
(* datetime.strptime(value, '%Y-%m-%d'): <<y, m, d>> or <<>> (ValueError). *)
(***************************************************************************)
DigitChars == <<"0", "1", "2", "3", "4", "5", "6", "7", "8", "9">>

IsDigit(c) == \E k \in 1..10 : DigitChars[k] = c

DigitVal(c) == (CHOOSE k \in 1..10 : DigitChars[k] = c) - 1

At(s, i) == IF i >= 1 /\ i <= Len(s) THEN s[i] ELSE "<end>"

Num(s, p, n) ==
    IF n = 1 THEN DigitVal(s[p])
    ELSE IF n = 2 THEN 10 * DigitVal(s[p]) + DigitVal(s[p + 1])
    ELSE 1000 * DigitVal(s[p]) + 100 * DigitVal(s[p + 1])
         + 10 * DigitVal(s[p + 2]) + DigitVal(s[p + 3])

\* %m is the regex 1[0-2]|0[1-9]|[1-9]; the match must be followed by "-".
MonthLen(s, p) ==
    IF /\ \/ At(s, p) = "1" /\ At(s, p + 1) \in {"0", "1", "2"}
          \/ At(s, p) = "0" /\ IsDigit(At(s, p + 1)) /\ At(s, p + 1) # "0"
       /\ At(s, p + 2) = "-"
    THEN 2
    ELSE IF IsDigit(At(s, p)) /\ At(s, p) # "0" /\ At(s, p + 1) = "-"
    THEN 1
    ELSE 0

\* %d is the regex 3[01]|[12]\d|0[1-9]|[1-9]| [1-9], first alternative wins.
DayLen(s, p) ==
    IF \/ At(s, p) = "3" /\ At(s, p + 1) \in {"0", "1"}
       \/ At(s, p) \in {"1", "2"} /\ IsDigit(At(s, p + 1))
       \/ At(s, p) = "0" /\ IsDigit(At(s, p + 1)) /\ At(s, p + 1) # "0"
    THEN 2
    ELSE IF IsDigit(At(s, p)) /\ At(s, p) # "0"
    THEN 1
    ELSE IF At(s, p) = " " /\ IsDigit(At(s, p + 1)) /\ At(s, p + 1) # "0"
    THEN 2
    ELSE 0

IsLeap(y) == (y % 4 = 0 /\ y % 100 # 0) \/ y % 400 = 0

DaysInMonth(y, m) ==
    IF m = 2 THEN (IF IsLeap(y) THEN 29 ELSE 28)
    ELSE IF m \in {4, 6, 9, 11} THEN 30 ELSE 31

strptime(s) ==
    IF ~ (/\ \A i \in 1..4 : IsDigit(At(s, i))
          /\ At(s, 5) = "-")
    THEN <<>>
    ELSE LET ml == MonthLen(s, 6)
             dp == 6 + ml + 1
             dl == DayLen(s, dp)
         IN IF ml = 0 \/ dl = 0 \/ dp + dl - 1 # Len(s)
            THEN <<>>
            ELSE LET y == Num(s, 1, 4)
                     m == Num(s, 6, ml)
                     d == IF At(s, dp) = " " THEN Num(s, dp + 1, 1)
                          ELSE Num(s, dp, dl)
                 IN IF y >= 1 /\ d <= DaysInMonth(y, m)
                    THEN <<y, m, d>>
                    ELSE <<>>

ParsesAsDate(s) == strptime(s) # <<>>

ValidPriorities == {"Low", "Medium", "High"}

(***************************************************************************)
(* class Task                                                              *)
(***************************************************************************)
uuid4(n) == UuidNames[n]

\* Task.__init__: a falsy task_id (None or "") is replaced by a new uuid.
Task(title, priority, due_date, status, task_id, fresh) ==
    [id |-> IF task_id \notin {None, ""} THEN task_id ELSE fresh,
     title |-> title,
     priority |-> priority,
     due_date |-> due_date,
     status |-> status]

to_dict(t) ==
    [id |-> t.id, title |-> t.title, priority |-> t.priority,
     due_date |-> t.due_date, status |-> t.status]

from_dict(data, fresh) ==
    Task(data.title, data.priority, data.due_date, data.status, data.id, fresh)

(***************************************************************************)
(* class TaskManager                                                       *)
(***************************************************************************)

\* _find_task answering the last position, not None, when no id matches.
_find_task_last(list, task_id) ==
    IF \E i \in 1..Len(list) : list[i].id = task_id
    THEN CHOOSE i \in 1..Len(list) :
            /\ list[i].id = task_id
            /\ \A j \in 1..(i - 1) : list[j].id # task_id
    ELSE Len(list)

_find_task(list, task_id) ==
    IF \E i \in 1..Len(list) : list[i].id = task_id
    THEN CHOOSE i \in 1..Len(list) :
            /\ list[i].id = task_id
            /\ \A j \in 1..(i - 1) : list[j].id # task_id
    ELSE 0

\* The content save_to_file writes: every task's to_dict, in list order.
Dump(list) == [i \in 1..Len(list) |-> to_dict(list[i])]

save_to_file(list) == [exists |-> TRUE, data |-> Dump(list)]

\* Number of records before position i whose id makes Task.__init__ draw a uuid.
FreshBefore(data, i) == Cardinality({j \in 1..(i - 1) : data[j].id \in {None, ""}})

load_from_file(f, n) ==
    IF f.exists
    THEN [i \in 1..Len(f.data) |->
             from_dict(f.data[i], uuid4(n + FreshBefore(f.data, i) + 1))]
    ELSE <<>>

Ids(list) == {list[i].id : i \in 1..Len(list)}

\* The call that produced the current state, and its outcome.
Call(op, task_id, ret) == [op |-> op, task_id |-> task_id, ret |-> ret]

Init ==
    /\ task_list = <<>>
    /\ file = [exists |-> FALSE, data |-> <<>>]
    /\ uuids = 0
    /\ last = Call("__init__", None, "None")

\* add_task with the new task inserted at the head of task_list.
add_task_prepend(title, priority, due_date) ==
    IF priority \notin ValidPriorities \/ ~ParsesAsDate(due_date)
    THEN /\ last' = Call("add_task", None, "ValueError")
         /\ UNCHANGED <<task_list, file, uuids>>
    ELSE /\ Len(task_list) < MaxTasks
         /\ uuids < MaxUuid
         /\ LET task == Task(title, priority, due_date, "Pending", None, uuid4(uuids + 1))
            IN /\ task_list' = <<task>> \o task_list
               /\ file' = save_to_file(<<task>> \o task_list)
               /\ last' = Call("add_task", None, "Task")
         /\ uuids' = uuids + 1

\* add_task without the strptime check of due_date.
add_task_unchecked_date(title, priority, due_date) ==
    IF priority \notin ValidPriorities
    THEN /\ last' = Call("add_task", None, "ValueError")
         /\ UNCHANGED <<task_list, file, uuids>>
    ELSE /\ Len(task_list) < MaxTasks
         /\ uuids < MaxUuid
         /\ LET task == Task(title, priority, due_date, "Pending", None, uuid4(uuids + 1))
            IN /\ task_list' = Append(task_list, task)
               /\ file' = save_to_file(Append(task_list, task))
               /\ last' = Call("add_task", None, "Task")
         /\ uuids' = uuids + 1

add_task(title, priority, due_date) ==
    IF priority \notin ValidPriorities \/ ~ParsesAsDate(due_date)
    THEN /\ last' = Call("add_task", None, "ValueError")
         /\ UNCHANGED <<task_list, file, uuids>>
    ELSE /\ Len(task_list) < MaxTasks
         /\ uuids < MaxUuid
         /\ LET task == Task(title, priority, due_date, "Pending", None, uuid4(uuids + 1))
            IN /\ task_list' = Append(task_list, task)
               /\ file' = save_to_file(Append(task_list, task))
               /\ last' = Call("add_task", None, "Task")
         /\ uuids' = uuids + 1


\* mark_complete moving the completed task to the end of task_list.
mark_complete_move_to_end(task_id) ==
    LET i == _find_task(task_list, task_id)
    IN IF i # 0
       THEN LET done == [task_list[i] EXCEPT !.status = "Completed"]
                list == [j \in 1..Len(task_list) |->
                            IF j < i THEN task_list[j]
                            ELSE IF j < Len(task_list) THEN task_list[j + 1]
                            ELSE done]
            IN /\ task_list' = list
               /\ file' = save_to_file(list)
               /\ last' = Call("mark_complete", task_id, "True")
               /\ UNCHANGED uuids
       ELSE /\ last' = Call("mark_complete", task_id, "False")
            /\ UNCHANGED <<task_list, file, uuids>>

mark_complete(task_id) ==
    LET i == _find_task(task_list, task_id)
    IN IF i # 0
       THEN /\ task_list' = [task_list EXCEPT ![i].status = "Completed"]
            /\ file' = save_to_file([task_list EXCEPT ![i].status = "Completed"])
            /\ last' = Call("mark_complete", task_id, "True")
            /\ UNCHANGED uuids
       ELSE /\ last' = Call("mark_complete", task_id, "False")
            /\ UNCHANGED <<task_list, file, uuids>>

Generated == {uuid4(k) : k \in 1..uuids}

TaskIdInputs == Generated \cup {""}

\* hasattr(task, key) for the keyword names the exploration provides: the
\* five instance attributes exist, any other provided name does not.
hasattr(task, key) == key \in DOMAIN task

setattr(task, key, value) == [task EXCEPT ![key] = value]

\* The loop of update_task from the k-th keyword on: the task as the loop
\* leaves it, and whether the loop ran to its end (FALSE: it returned False).
RECURSIVE UpdateLoop(_, _, _)
UpdateLoop(task, kwargs, k) ==
    IF k > Len(kwargs)
    THEN [task |-> task, done |-> TRUE]
    ELSE LET key == kwargs[k][1]
             value == kwargs[k][2]
         IN IF hasattr(task, key)
            THEN IF key = "priority" /\ value \notin ValidPriorities
                 THEN [task |-> task, done |-> FALSE]
                 ELSE IF key = "due_date" /\ ~ParsesAsDate(value)
                 THEN [task |-> task, done |-> FALSE]
                 ELSE UpdateLoop(setattr(task, key, value), kwargs, k + 1)
            ELSE UpdateLoop(task, kwargs, k + 1)

update_task(task_id, kwargs) ==
    LET i == _find_task(task_list, task_id)
    IN IF i = 0
       THEN /\ last' = Call("update_task", task_id, "False")
            /\ UNCHANGED <<task_list, file, uuids>>
       ELSE LET r == UpdateLoop(task_list[i], kwargs, 1)
                list == [task_list EXCEPT ![i] = r.task]
            IN /\ task_list' = list
               /\ IF r.done
                  THEN /\ file' = save_to_file(list)
                       /\ last' = Call("update_task", task_id, "True")
                  ELSE /\ file' = file
                       /\ last' = Call("update_task", task_id, "False")
               /\ UNCHANGED uuids

RemoveAt(list, i) == [j \in 1..(Len(list) - 1) |-> IF j < i THEN list[j] ELSE list[j + 1]]

delete_task(task_id) ==
    LET i == _find_task(task_list, task_id)
    IN IF i # 0
       THEN /\ task_list' = RemoveAt(task_list, i)
            /\ file' = save_to_file(RemoveAt(task_list, i))
            /\ last' = Call("delete_task", task_id, "True")
            /\ UNCHANGED uuids
       ELSE /\ last' = Call("delete_task", task_id, "False")
            /\ UNCHANGED <<task_list, file, uuids>>

\* Persist(): save_to_file called on its own.
Persist ==
    /\ file' = save_to_file(task_list)
    /\ last' = Call("save_to_file", None, "None")
    /\ UNCHANGED <<task_list, uuids>>

\* Task.from_dict reads the five keys of a record; a missing one is a KeyError.
TaskKeys == {"id", "title", "priority", "due_date", "status"}

FirstIncomplete(data) ==
    IF \E i \in 1..Len(data) : ~(TaskKeys \subseteq DOMAIN data[i])
    THEN CHOOSE i \in 1..Len(data) :
            /\ ~(TaskKeys \subseteq DOMAIN data[i])
            /\ \A j \in 1..(i - 1) : TaskKeys \subseteq DOMAIN data[j]
    ELSE 0

\* The exception load_from_file lets through, "None" when it returns.
LoadError(f) ==
    IF ~f.exists THEN "None"
    ELSE IF f.data = <<[truncated |-> TRUE]>> THEN "JSONDecodeError"
    ELSE IF FirstIncomplete(f.data) # 0 THEN "KeyError"
    ELSE "None"

\* A new store instance on the same backing store: TaskManager.__init__.
\* When load_from_file raises, task_list is the [] of line 34 and the
\* constructor does not return a store.
TaskManager ==
    IF LoadError(file) = "None"
    THEN LET n == IF file.exists THEN FreshBefore(file.data, Len(file.data) + 1) ELSE 0
             list == load_from_file(file, uuids)
         IN /\ uuids + n <= MaxUuid
            /\ task_list' = list
            /\ uuids' = uuids + n
            /\ last' = Call("__init__", None, "None")
            /\ UNCHANGED file
    ELSE LET n == IF LoadError(file) = "KeyError"
                  THEN FreshBefore(file.data, FirstIncomplete(file.data))
                  ELSE 0
         IN /\ uuids + n <= MaxUuid
            /\ task_list' = <<>>
            /\ uuids' = uuids + n
            /\ last' = Call("__init__", None, LoadError(file))
            /\ UNCHANGED file

\* Keyword arguments: an ordered mapping, every name at most once.
KwargsInputs ==
    {<<>>,
     <<<<"title", "B">>>>,
     <<<<"priority", "Low">>>>,
     <<<<"priority", "Urgent">>>>,
     <<<<"due_date", D_2024_01_10>>>>,
     <<<<"due_date", D_slashes>>>>,
     <<<<"id", "">>>>,
     <<<<"status", "Pending">>>>,
     <<<<"color", "red">>>>,
     <<<<"title", "B">>, <<"priority", "Urgent">>>>,
     <<<<"priority", "Urgent">>, <<"title", "B">>>>,
     <<<<"title", "B">>, <<"due_date", D_2024_02_30>>>>,
     <<<<"color", "red">>, <<"title", "B">>>>}

Next ==
    \/ \E title \in TitleInputs, priority \in PriorityInputs, due_date \in DueDateInputs :
          add_task(title, priority, due_date)
    \/ \E task_id \in TaskIdInputs, kwargs \in KwargsInputs : update_task(task_id, kwargs)
    \/ \E task_id \in TaskIdInputs : mark_complete(task_id)
    \/ \E task_id \in TaskIdInputs : delete_task(task_id)
    \/ Persist
    \/ TaskManager

Spec == Init /\ [][Next]_vars


(***************************************************************************)
(* Queries: filter_tasks and view_tasks.  A date object is <<y, m, d>>;    *)
(* today is datetime.now().date(), an input of the call.                   *)
(***************************************************************************)
D_2024_01_27 == <<"2","0","2","4","-","0","1","-","2","7">>
D_2024_01_28 == <<"2","0","2","4","-","0","1","-","2","8">>
D_2024_02_04 == <<"2","0","2","4","-","0","2","-","0","4">>
D_2024_02_05 == <<"2","0","2","4","-","0","2","-","0","5">>

QueryDateInputs == {D_2024_01_27, D_2024_01_28, D_2024_02_04, D_2024_02_05}
TodayInputs == {<<2024, 1, 28>>, <<2024, 2, 4>>}
\* (by, value) of filter_tasks, (filter_type, filter_value) of view_tasks.
FilterInputs ==
    {<<None, None>>, <<"status", "Pending">>, <<"status", "Completed">>,
     <<"status", "week">>, <<"due_date", "today">>, <<"due_date", "week">>,
     <<"due_date", "month">>, <<"priority", "Low">>}

\* date <= date: the order of (year, month, day).
DateLE(a, b) ==
    \/ a[1] < b[1]
    \/ a[1] = b[1] /\ a[2] < b[2]
    \/ a[1] = b[1] /\ a[2] = b[2] /\ a[3] <= b[3]

NextDay(date) ==
    IF date[3] < DaysInMonth(date[1], date[2]) THEN <<date[1], date[2], date[3] + 1>>
    ELSE IF date[2] < 12 THEN <<date[1], date[2] + 1, 1>>
    ELSE <<date[1] + 1, 1, 1>>

\* date + timedelta(days=n)
RECURSIVE timedelta(_, _)
timedelta(date, n) == IF n = 0 THEN date ELSE timedelta(NextDay(date), n - 1)

\* The list comprehensions of filter_tasks and view_tasks over due dates
\* call strptime on every task: one unparsable due_date raises ValueError.
Unparsable(list) == \E i \in 1..Len(list) : ~ParsesAsDate(list[i].due_date)

\* filter_tasks with the upper end of the week left out.
filter_list_week_exclusive(list, by, value, today) ==
    IF by = "status"
    THEN LET Keep(t) == t.status = value
         IN [ret |-> "list", out |-> SelectSeq(list, Keep)]
    ELSE IF by = "due_date" /\ value = "today"
    THEN IF Unparsable(list) THEN [ret |-> "ValueError", out |-> <<>>]
         ELSE LET Keep(t) == strptime(t.due_date) = today
              IN [ret |-> "list", out |-> SelectSeq(list, Keep)]
    ELSE IF by = "due_date" /\ value = "week"
    THEN IF Unparsable(list) THEN [ret |-> "ValueError", out |-> <<>>]
         ELSE LET end_of_week == timedelta(today, 7)
                  Keep(t) == /\ DateLE(today, strptime(t.due_date))
                             /\ DateLE(strptime(t.due_date), end_of_week)
                             /\ strptime(t.due_date) # end_of_week
              IN [ret |-> "list", out |-> SelectSeq(list, Keep)]
    ELSE [ret |-> "list", out |-> <<>>]

\* What filter_tasks returns.
filter_list(list, by, value, today) ==
    IF by = "status"
    THEN LET Keep(t) == t.status = value
         IN [ret |-> "list", out |-> SelectSeq(list, Keep)]
    ELSE IF by = "due_date" /\ value = "today"
    THEN IF Unparsable(list) THEN [ret |-> "ValueError", out |-> <<>>]
         ELSE LET Keep(t) == strptime(t.due_date) = today
              IN [ret |-> "list", out |-> SelectSeq(list, Keep)]
    ELSE IF by = "due_date" /\ value = "week"
    THEN IF Unparsable(list) THEN [ret |-> "ValueError", out |-> <<>>]
         ELSE LET end_of_week == timedelta(today, 7)
                  Keep(t) == /\ DateLE(today, strptime(t.due_date))
                             /\ DateLE(strptime(t.due_date), end_of_week)
              IN [ret |-> "list", out |-> SelectSeq(list, Keep)]
    ELSE [ret |-> "list", out |-> <<>>]

\* What view_tasks prints: the tasks of the rows, in order.
view_rows(list, filter_type, filter_value, today) ==
    IF Len(list) = 0
    THEN [ret |-> "None", out |-> <<>>]
    ELSE IF filter_type = "status"
    THEN LET Keep(t) == t.status = filter_value
         IN [ret |-> "None", out |-> SelectSeq(list, Keep)]
    ELSE IF filter_type = "due_date" /\ filter_value = "today"
    THEN IF Unparsable(list) THEN [ret |-> "ValueError", out |-> <<>>]
         ELSE LET Keep(t) == strptime(t.due_date) = today
              IN [ret |-> "None", out |-> SelectSeq(list, Keep)]
    ELSE IF filter_type = "due_date" /\ filter_value = "week"
    THEN IF Unparsable(list) THEN [ret |-> "ValueError", out |-> <<>>]
         ELSE LET end_of_week == timedelta(today, 7)
                  Keep(t) == /\ DateLE(today, strptime(t.due_date))
                             /\ DateLE(strptime(t.due_date), end_of_week)
              IN [ret |-> "None", out |-> SelectSeq(list, Keep)]
    ELSE [ret |-> "None", out |-> list]

\* A query call and what it returned or printed.
Query(op, r) == [op |-> op, task_id |-> None, ret |-> r.ret, out |-> r.out]

filter_tasks(by, value, today) ==
    /\ last' = Query("filter_tasks", filter_list(task_list, by, value, today))
    /\ UNCHANGED <<task_list, file, uuids>>

\* view_tasks keeping the filtered list as the store's list.
view_tasks_in_place(filter_type, filter_value, today) ==
    /\ last' = Query("view_tasks", view_rows(task_list, filter_type, filter_value, today))
    /\ task_list' = view_rows(task_list, filter_type, filter_value, today).out
    /\ UNCHANGED <<file, uuids>>

view_tasks(filter_type, filter_value, today) ==
    /\ last' = Query("view_tasks", view_rows(task_list, filter_type, filter_value, today))
    /\ UNCHANGED <<task_list, file, uuids>>

NextQuery ==
    \/ \E due_date \in QueryDateInputs : add_task("A", "Low", due_date)
    \/ \E task_id \in TaskIdInputs : mark_complete(task_id)
    \/ \E task_id \in TaskIdInputs : delete_task(task_id)
    \/ \E f \in FilterInputs, today \in TodayInputs : filter_tasks(f[1], f[2], today)
    \/ \E f \in FilterInputs, today \in TodayInputs : view_tasks(f[1], f[2], today)

SpecQuery == Init /\ [][NextQuery]_vars


(***************************************************************************)
(* Storage faults: save_to_file raising OSError.  open(..., 'w') that      *)
(* fails leaves tasks.json as it was; json.dump that fails after the open  *)
(* leaves a truncated file that json.load rejects.                         *)
(***************************************************************************)
Truncated == [exists |-> TRUE, data |-> <<[truncated |-> TRUE]>>]

FailedWrite(f) == {f, Truncated}

\* A call that ended with the OSError of its save_to_file.
FaultCall(op, task_id) ==
    [op |-> op, task_id |-> task_id, ret |-> "OSError", write |-> "failed"]

add_task_write_fails(title, priority, due_date) ==
    /\ priority \in ValidPriorities
    /\ ParsesAsDate(due_date)
    /\ Len(task_list) < MaxTasks
    /\ uuids < MaxUuid
    /\ LET task == Task(title, priority, due_date, "Pending", None, uuid4(uuids + 1))
       IN task_list' = Append(task_list, task)
    /\ file' \in FailedWrite(file)
    /\ last' = FaultCall("add_task", None)
    /\ uuids' = uuids + 1

update_task_write_fails(task_id, kwargs) ==
    LET i == _find_task(task_list, task_id)
    IN /\ i # 0
       /\ UpdateLoop(task_list[i], kwargs, 1).done
       /\ task_list' = [task_list EXCEPT ![i] = UpdateLoop(task_list[i], kwargs, 1).task]
       /\ file' \in FailedWrite(file)
       /\ last' = FaultCall("update_task", task_id)
       /\ UNCHANGED uuids

\* mark_complete undoing its change when save_to_file raises.
mark_complete_write_fails_rollback(task_id) ==
    LET i == _find_task(task_list, task_id)
    IN /\ i # 0
       /\ task_list' = task_list
       /\ file' \in FailedWrite(file)
       /\ last' = FaultCall("mark_complete", task_id)
       /\ UNCHANGED uuids

mark_complete_write_fails(task_id) ==
    LET i == _find_task(task_list, task_id)
    IN /\ i # 0
       /\ task_list' = [task_list EXCEPT ![i].status = "Completed"]
       /\ file' \in FailedWrite(file)
       /\ last' = FaultCall("mark_complete", task_id)
       /\ UNCHANGED uuids

delete_task_write_fails(task_id) ==
    LET i == _find_task(task_list, task_id)
    IN /\ i # 0
       /\ task_list' = RemoveAt(task_list, i)
       /\ file' \in FailedWrite(file)
       /\ last' = FaultCall("delete_task", task_id)
       /\ UNCHANGED uuids

FaultKwargsInputs == {<<<<"title", "B">>>>, <<<<"priority", "Low">>>>}

NextFault ==
    \/ add_task("A", "Low", D_2024_01_10)
    \/ \E task_id \in TaskIdInputs, kwargs \in FaultKwargsInputs : update_task(task_id, kwargs)
    \/ \E task_id \in TaskIdInputs : mark_complete(task_id)
    \/ \E task_id \in TaskIdInputs : delete_task(task_id)
    \/ add_task_write_fails("A", "Low", D_2024_01_10)
    \/ \E task_id \in TaskIdInputs, kwargs \in FaultKwargsInputs :
          update_task_write_fails(task_id, kwargs)
    \/ \E task_id \in TaskIdInputs : mark_complete_write_fails(task_id)
    \/ \E task_id \in TaskIdInputs : delete_task_write_fails(task_id)

SpecFault == Init /\ [][NextFault]_vars


(***************************************************************************)
(* Construction on a tasks.json that is already there.                     *)
(***************************************************************************)
Rec(id, title, status) ==
    [id |-> id, title |-> title, priority |-> "Low",
     due_date |-> D_2024_01_10, status |-> status]

Without(rec, key) == [k \in DOMAIN rec \ {key} |-> rec[k]]

RecordInputs ==
    {Rec("f1", "A", "Pending"), Rec("f2", "B", "Completed"), Rec("", "A", "Pending")}
    \cup {Without(Rec("f1", "A", "Pending"), key) : key \in TaskKeys}

FileInputs ==
    {[exists |-> FALSE, data |-> <<>>], Truncated}
    \cup {[exists |-> TRUE, data |-> <<>>]}
    \cup {[exists |-> TRUE, data |-> <<r>>] : r \in RecordInputs}
    \cup {[exists |-> TRUE, data |-> <<r, q>>] : r, q \in RecordInputs}

\* Before main() constructs the store.
InitLoad ==
    /\ task_list = <<>>
    /\ file \in FileInputs
    /\ uuids = 0
    /\ last = Call("start", None, "None")

Constructed == last.op # "start" /\ ~(last.op = "__init__" /\ last.ret # "None")

NextLoad ==
    \/ last.op = "start" /\ TaskManager
    \/ Constructed /\ \E task_id \in {"f1", "f2", ""} : mark_complete(task_id)
    \/ Constructed /\ \E task_id \in {"f1", "f2", ""} : delete_task(task_id)

SpecLoad == InitLoad /\ [][NextLoad]_vars


(***************************************************************************)
(* The menu loop of main().                                                *)
(***************************************************************************)
D_blank == <<>>
D_padded == <<" ">> \o D_2024_01_10 \o <<" ">>

\* str.strip, str.lower and str.capitalize on the lines typed here.
strip(x) == CASE x = " A " -> "A" [] x = " B " -> "B" [] x = " " -> "" [] OTHER -> x
lower(x) == CASE x = "HIGH" -> "high" [] x = "Urgent" -> "urgent" [] OTHER -> x
capitalize(x) == CASE x = "HIGH" -> "High" [] x = "low" -> "Low" [] OTHER -> x

\* str.strip on a line held as its characters.
RECURSIVE strip_chars(_)
strip_chars(s) ==
    IF s = <<>> THEN s
    ELSE IF Head(s) = " " THEN strip_chars(Tail(s))
    ELSE IF s[Len(s)] = " " THEN strip_chars(SubSeq(s, 1, Len(s) - 1))
    ELSE s

\* The values get_user_input can return: a typed line, stripped, that the
\* validation function accepts; any other line is asked for again.
get_user_input(Typed, as_chars, validation_func) ==
    LET Stripped == {IF as_chars THEN strip_chars(line) ELSE strip(line) : line \in Typed}
    IN {x \in Stripped : validation_func[x]}

TypedTitles == {"", " ", " A "}
TypedNewTitles == {"", " B "}
TypedPriorities == {"", "low", "Urgent"}
TypedNewPriorities == {"", "HIGH", "Urgent"}
TypedDates == {D_blank, D_padded, D_slashes}
TypedNewDates == {D_blank, D_2024_02_30}
TypedTaskIds == TaskIdInputs \cup {"f1"}

\* tasks.json as main() may find it.
MenuFileInputs ==
    {[exists |-> FALSE, data |-> <<>>],
     [exists |-> TRUE, data |-> <<Rec("f1", "A", "Pending")>>],
     [exists |-> TRUE, data |-> <<Rec("", "A", "Pending")>>]}

InitMenu ==
    /\ task_list = <<>>
    /\ file \in MenuFileInputs
    /\ uuids = 0
    /\ last = Call("start", None, "None")

\* The loop is at the menu: the store is constructed, no call has raised,
\* and the exit choice has not been taken.
AtMenu ==
    /\ Constructed
    /\ last.op # "exit"
    /\ last.ret \notin {"ValueError", "KeyError", "JSONDecodeError", "OSError"}

\* The lines the prompts can get, stripped.
Lines == {"", "A", "B", "low", "HIGH", "Urgent", "f1"} \cup TaskIdInputs
DateLines == {D_blank, D_2024_01_10, D_slashes, D_2024_02_30}

\* The validation functions main() passes to get_user_input.
NonEmpty == [x \in Lines |-> x # ""]
IsPriority == [x \in Lines |-> lower(x) \in {"low", "medium", "high"}]
IsDate == [x \in DateLines |-> ParsesAsDate(x)]
NoValidation == [x \in Lines |-> TRUE]
BlankOrPriority == [x \in Lines |-> x = "" \/ lower(x) \in {"low", "medium", "high"}]
BlankOrDate == [x \in DateLines |-> x = D_blank \/ ParsesAsDate(x)]

\* choice '1'
main_add_task ==
    \E title \in get_user_input(TypedTitles, FALSE, NonEmpty),
       priority \in get_user_input(TypedPriorities, FALSE, IsPriority),
       due_date \in get_user_input(TypedDates, TRUE, IsDate) :
        add_task(title, capitalize(priority), due_date)

\* choice '2'
main_view_tasks ==
    \E f \in {<<None, None>>, <<"status", "Pending">>, <<"status", "Completed">>},
       today \in TodayInputs :
        view_tasks(f[1], f[2], today)

\* The updates dict of choice '3': the non-blank answers, in the order
\* title, priority, due_date.
updates(title, priority, due_date) ==
    (IF title # "" THEN <<<<"title", title>>>> ELSE <<>>)
    \o (IF priority # "" THEN <<<<"priority", capitalize(priority)>>>> ELSE <<>>)
    \o (IF due_date # D_blank THEN <<<<"due_date", due_date>>>> ELSE <<>>)

\* choice '3': the listing changes nothing; update_task is called only
\* with a non-empty updates dict.
main_update_task ==
    \E task_id \in get_user_input(TypedTaskIds, FALSE, NoValidation),
       title \in get_user_input(TypedNewTitles, FALSE, NoValidation),
       priority \in get_user_input(TypedNewPriorities, FALSE, BlankOrPriority),
       due_date \in get_user_input(TypedNewDates, TRUE, BlankOrDate) :
        IF updates(title, priority, due_date) # <<>>
        THEN update_task(task_id, updates(title, priority, due_date))
        ELSE /\ last' = Call("main", task_id, "no updates")
             /\ UNCHANGED <<task_list, file, uuids>>

\* choice '4'
main_mark_complete ==
    \E task_id \in get_user_input(TypedTaskIds, FALSE, NoValidation) : mark_complete(task_id)

\* choice '5'
main_delete_task ==
    \E task_id \in get_user_input(TypedTaskIds, FALSE, NoValidation) : delete_task(task_id)

\* choice '6'
main_filter_tasks ==
    \E f \in {<<"status", "Pending">>, <<"status", "Completed">>,
              <<"due_date", "today">>, <<"due_date", "week">>},
       today \in TodayInputs :
        view_tasks(f[1], f[2], today)

\* choice '7' without the save.
main_exit_unsaved ==
    /\ last' = Call("exit", None, "None")
    /\ UNCHANGED <<task_list, file, uuids>>

\* choice '7': save_to_file, then break.
main_exit ==
    /\ file' = save_to_file(task_list)
    /\ last' = Call("exit", None, "None")
    /\ UNCHANGED <<task_list, uuids>>

NextMenu ==
    \/ last.op = "start" /\ TaskManager
    \/ AtMenu /\ main_add_task
    \/ AtMenu /\ main_view_tasks
    \/ AtMenu /\ main_update_task
    \/ AtMenu /\ main_mark_complete
    \/ AtMenu /\ main_delete_task
    \/ AtMenu /\ main_filter_tasks
    \/ AtMenu /\ main_exit

SpecMenu == InitMenu /\ [][NextMenu]_vars

(***************************************************************************)
(* Properties.                                                             *)
(***************************************************************************)
FileContent == IF file.exists THEN file.data ELSE <<>>

IdSeq(list) == [i \in 1..Len(list) |-> list[i].id]

BadDateInputs == {D_slashes, D_2024_02_30}

StoreOps == {"add_task", "update_task", "mark_complete", "delete_task"}

InvalidField(kwargs, k) ==
    \/ kwargs[k][1] = "priority" /\ kwargs[k][2] \notin {"Low", "Medium", "High"}
    \/ kwargs[k][1] = "due_date" /\ ~ParsesAsDate(kwargs[k][2])

\* C1: an add_task, update_task, mark_complete or delete_task call, accepted
\* or rejected, that starts with the backing store holding the in-memory
\* collection (no file counting as the empty collection) ends with the
\* backing store holding the in-memory collection.
C1_StoreHoldsCollection ==
    [][(last'.op \in StoreOps /\ FileContent = Dump(task_list))
          => FileContent' = Dump(task_list')]_vars

\* C2: update_task of an existing task with an invalid priority or an
\* unparsable due_date among the provided fields returns False and changes no
\* field of the task, wherever the invalid field stands; otherwise it returns
\* True and the task has every provided field.
C2_UpdateAllOrNothing ==
    [][last'.op = "update_task" =>
       \A task_id \in Ids(task_list), kwargs \in KwargsInputs :
          update_task(task_id, kwargs)
          => LET i == _find_task(task_list, task_id)
             IN IF \E k \in 1..Len(kwargs) : InvalidField(kwargs, k)
                THEN last'.ret = "False" /\ task_list' = task_list
                ELSE /\ last'.ret = "True"
                     /\ \A k \in 1..Len(kwargs) :
                           kwargs[k][1] \in {"title", "priority", "due_date"}
                           => task_list'[i][kwargs[k][1]] = kwargs[k][2]]_vars

\* C3: in every reachable state the tasks of the store have pairwise distinct
\* ids, a priority among Low, Medium and High, and a due date that parses as
\* YYYY-MM-DD.
C3_StoreInvariant ==
    /\ \A i, j \in 1..Len(task_list) : i # j => task_list[i].id # task_list[j].id
    /\ \A i \in 1..Len(task_list) :
          /\ task_list[i].priority \in {"Low", "Medium", "High"}
          /\ ParsesAsDate(task_list[i].due_date)

\* C4: no step changes the id of a task that stays in the store (the ids, in
\* list order, stay as they are or lose the id of the one deleted task), and a
\* task that a step adds gets an id that no earlier task had.
C4_IdImmutableNeverReused ==
    [][LET old == IdSeq(task_list)
           new == IdSeq(task_list')
       IN \/ new = old
          \/ \E i \in 1..Len(old) : new = RemoveAt(old, i)
          \/ /\ Len(new) = Len(old) + 1
             /\ SubSeq(new, 1, Len(old)) = old
             /\ new[Len(new)] \notin Generated \cup Ids(task_list)]_vars

\* C5: every status is Pending or Completed; a step changes the status of a
\* task only as mark_complete, from Pending to Completed; a Completed task
\* that stays in the store stays Completed.
C5_StatusOnlyCompletes ==
    [][/\ \A i \in 1..Len(task_list') : task_list'[i].status \in {"Pending", "Completed"}
       /\ (last'.op # "delete_task" /\ Len(task_list') = Len(task_list))
          => \A i \in 1..Len(task_list) :
                /\ task_list[i].status = "Completed" => task_list'[i].status = "Completed"
                /\ task_list'[i].status # task_list[i].status
                   => /\ last'.op = "mark_complete"
                      /\ task_list[i].status = "Pending"
                      /\ task_list'[i].status = "Completed"]_vars

\* C6: a successful add_task appends exactly one task, with the given title,
\* priority and due_date, status Pending and an id that no task of the store
\* has and that no earlier add_task produced; it returns the task and leaves
\* the tasks that were already stored, and their order, as they were.
C6_AddAppendsFreshTask ==
    [][last'.op = "add_task" =>
       \A title \in TitleInputs, priority \in PriorityInputs, due_date \in DueDateInputs :
          (/\ add_task(title, priority, due_date)
           /\ priority \in {"Low", "Medium", "High"}
           /\ due_date \notin BadDateInputs)
          => /\ last'.ret = "Task"
             /\ Len(task_list') = Len(task_list) + 1
             /\ SubSeq(task_list', 1, Len(task_list)) = task_list
             /\ LET new == task_list'[Len(task_list')]
                IN /\ new.title = title
                   /\ new.priority = priority
                   /\ new.due_date = due_date
                   /\ new.status = "Pending"
                   /\ new.id \notin Ids(task_list) \cup Generated \cup {"", None}]_vars

C6_Witness ==
    /\ last.op = "add_task"
    /\ last.ret = "Task"
    /\ Len(task_list) = 2
    /\ task_list[1].id # task_list[2].id
    /\ task_list[1].title # task_list[2].title

\* C7: add_task with a priority outside Low/Medium/High, or with a due date
\* that does not parse as YYYY-MM-DD, raises an error and changes neither the
\* in-memory collection nor the backing store.
C7_AddRejectsInvalid ==
    [][last'.op = "add_task" =>
       \A title \in TitleInputs, priority \in PriorityInputs, due_date \in DueDateInputs :
          (/\ add_task(title, priority, due_date)
           /\ \/ priority \notin {"Low", "Medium", "High"}
              \/ due_date \in BadDateInputs
              \/ ~ParsesAsDate(due_date))
          => /\ last'.ret = "ValueError"
             /\ task_list' = task_list
             /\ file' = file]_vars

C7_Witness ==
    /\ last.op = "add_task"
    /\ last.ret = "ValueError"
    /\ Len(task_list) > 0
    /\ FileContent = Dump(task_list)

\* C8: mark_complete with the id of a task of the store returns True and
\* leaves that task Completed, whatever its status was; the same call made
\* again right after returns True and leaves task_list and the file as the
\* first call left them.
C8_MarkCompleteIdempotent ==
    [][(last'.op = "mark_complete" /\ last'.task_id \in Ids(task_list))
          => /\ last'.ret = "True"
             /\ \A i \in 1..Len(task_list) :
                   task_list[i].id = last'.task_id
                   => /\ Len(task_list') = Len(task_list)
                      /\ task_list'[i].status = "Completed"
             /\ (last.op = "mark_complete" /\ last.ret = "True"
                 /\ last.task_id = last'.task_id)
                => task_list' = task_list /\ file' = file]_vars

\* C9: delete_task with the id of a task of the store returns True and removes
\* exactly that task, the others keeping their order; the same call made again
\* right after returns False.
C9_DeleteRemovesExactlyOne ==
    [][last'.op = "delete_task" =>
       /\ last'.task_id \in Ids(task_list)
          => /\ last'.ret = "True"
             /\ \A i \in 1..Len(task_list) :
                   task_list[i].id = last'.task_id
                   => task_list' = RemoveAt(task_list, i)
       /\ (last.op = "delete_task" /\ last.ret = "True"
           /\ last.task_id = last'.task_id)
          => last'.ret = "False"]_vars

\* C10: a new TaskManager constructed right after save_to_file holds the same
\* tasks in the same order, each with the same id, title, priority, due_date
\* and status.
C10_PersistLoadRoundTrip ==
    [][(last.op = "save_to_file" /\ last'.op = "__init__")
          => task_list' = task_list]_vars

\* C11: update_task, mark_complete and delete_task called with an id that no
\* task of the store has return False and change neither task_list nor the
\* file.
C11_NotFoundIsSoftFailure ==
    [][(/\ last'.op \in {"update_task", "mark_complete", "delete_task"}
        /\ last'.task_id \notin Ids(task_list))
          => /\ last'.ret = "False"
             /\ task_list' = task_list
             /\ file' = file]_vars

C11_Witness ==
    /\ last.op \in {"update_task", "mark_complete", "delete_task"}
    /\ last.ret = "False"
    /\ Len(task_list) > 0
    /\ last.task_id \notin Ids(task_list)

\* C13: update_task of an existing task, given only acceptable values,
\* returns True, sets the provided title, priority and due_date, and leaves
\* every attribute whose name is not title, priority or due_date as it was.
C13_UnknownFieldsIgnored ==
    [][last'.op = "update_task" =>
       \A task_id \in Ids(task_list), kwargs \in KwargsInputs :
          (/\ update_task(task_id, kwargs)
           /\ \A k \in 1..Len(kwargs) : ~InvalidField(kwargs, k))
          => LET i == _find_task(task_list, task_id)
             IN /\ last'.ret = "True"
                /\ \A k \in 1..Len(kwargs) :
                      kwargs[k][1] \in {"title", "priority", "due_date"}
                      => task_list'[i][kwargs[k][1]] = kwargs[k][2]
                /\ \A f \in DOMAIN task_list[i] \ {"title", "priority", "due_date"} :
                      task_list'[i][f] = task_list[i][f]]_vars

\* C14: add_task only appends, delete_task only removes one task and keeps
\* the others in order, update_task and mark_complete keep the length and
\* change at most the one task they found, in its place.
C14_InsertionOrderKept ==
    [][last'.op \in StoreOps =>
       \/ task_list' = task_list
       \/ /\ last'.op = "add_task"
          /\ Len(task_list') = Len(task_list) + 1
          /\ SubSeq(task_list', 1, Len(task_list)) = task_list
       \/ /\ last'.op = "delete_task"
          /\ \E i \in 1..Len(task_list) : task_list' = RemoveAt(task_list, i)
       \/ /\ last'.op \in {"update_task", "mark_complete"}
          /\ Len(task_list') = Len(task_list)
          /\ Cardinality({i \in 1..Len(task_list) : task_list'[i] # task_list[i]}) <= 1]_vars

C14_Witness ==
    /\ last.op = "mark_complete"
    /\ last.ret = "True"
    /\ Len(task_list) = 2
    /\ task_list[1].id = uuid4(1) /\ task_list[1].status = "Completed"
    /\ task_list[2].id = uuid4(2) /\ task_list[2].status = "Pending"

\* Days from 0001-01-01 to the date, counted through whole years and months.
RECURSIVE DaysBeforeMonth(_, _)
DaysBeforeMonth(y, m) == IF m = 1 THEN 0 ELSE DaysBeforeMonth(y, m - 1) + DaysInMonth(y, m - 1)

Ordinal(date) ==
    LET y == date[1] - 1
    IN 365 * y + (y \div 4) - (y \div 100) + (y \div 400)
       + DaysBeforeMonth(date[1], date[2]) + date[3]

DueIn(t, today) == Ordinal(strptime(t.due_date)) - Ordinal(today)

\* C12: filter_tasks returns, in the order of task_list, the tasks whose
\* status equals value (by status), whose due date is today (by due_date,
\* today), whose due date lies 0 to 7 days after today (by due_date, week),
\* and no task for any other by and value.
C12_FilterReturnsMatches ==
    [][last'.op = "filter_tasks" =>
       \A f \in FilterInputs, today \in TodayInputs :
          filter_tasks(f[1], f[2], today)
          => LET by == f[1]
                 value == f[2]
                 Match(t) ==
                    \/ by = "status" /\ t.status = value
                    \/ by = "due_date" /\ value = "today" /\ DueIn(t, today) = 0
                    \/ by = "due_date" /\ value = "week"
                       /\ DueIn(t, today) >= 0 /\ DueIn(t, today) <= 7
             IN /\ last'.ret = "list"
                /\ last'.out = SelectSeq(task_list, Match)]_vars

\* A filter has returned the task due 2024-02-04 and left out the one due
\* 2024-02-05, which stands before it in task_list.
C12_Witness ==
    /\ last.op = "filter_tasks"
    /\ Len(task_list) = 2
    /\ Len(last.out) = 1
    /\ last.out[1].due_date = D_2024_02_04
    /\ task_list[1].due_date = D_2024_02_05

\* C17: view_tasks and filter_tasks, with any arguments and in any state of
\* the store, change neither task_list nor the file.
C17_QueriesReadOnly ==
    [][last'.op \in {"view_tasks", "filter_tasks"}
          => /\ task_list' = task_list
             /\ file' = file
             /\ uuids' = uuids]_vars

\* view_tasks has printed one of the two tasks of the store.
C17_Witness ==
    /\ last.op = "view_tasks"
    /\ Len(task_list) = 2
    /\ Len(last.out) = 1
    /\ FileContent = Dump(task_list)

\* C19: for every store state and every filter type and value, the tasks
\* view_tasks prints are the tasks filter_tasks returns for the same
\* arguments.
C19_ViewAgreesWithFilter ==
    [][last'.op = "view_tasks" =>
       \A f \in FilterInputs, today \in TodayInputs :
          view_tasks(f[1], f[2], today)
          => last'.out = filter_list(task_list, f[1], f[2], today).out]_vars

WriteFailed(call) == "write" \in DOMAIN call

\* The collection a call leaves in memory when nothing is rolled back.
MutationKept ==
    LET i == _find_task(task_list, last'.task_id)
    IN /\ last'.op = "add_task"
          => /\ Len(task_list') = Len(task_list) + 1
             /\ SubSeq(task_list', 1, Len(task_list)) = task_list
             /\ task_list'[Len(task_list')].status = "Pending"
       /\ last'.op = "mark_complete"
          => task_list' = [task_list EXCEPT ![i].status = "Completed"]
       /\ last'.op = "delete_task"
          => task_list' = RemoveAt(task_list, i)
       /\ last'.op = "update_task"
          => \A kwargs \in FaultKwargsInputs :
                update_task_write_fails(last'.task_id, kwargs)
                => /\ Len(task_list') = Len(task_list)
                   /\ \A k \in 1..Len(kwargs) :
                         task_list'[i][kwargs[k][1]] = kwargs[k][2]

\* C15 as stated: when save_to_file fails in add_task, update_task,
\* mark_complete or delete_task, the call raises, task_list holds the
\* mutation, and the file differs from task_list.
C15_FailedPersistLeavesDifference ==
    [][WriteFailed(last')
          => /\ last'.ret = "OSError"
             /\ MutationKept
             /\ FileContent' # Dump(task_list')]_vars

\* C15 amended: when save_to_file fails in add_task, update_task,
\* mark_complete or delete_task, the call raises, task_list holds the
\* mutation, and the file is as it was before the call or truncated.
C15_FailedPersistNoRollback ==
    [][WriteFailed(last')
          => /\ last'.ret = "OSError"
             /\ MutationKept
             /\ file' \in {file, Truncated}]_vars

\* delete_task has failed to save: the task is gone from task_list and still
\* in the file.
C15_Witness ==
    /\ WriteFailed(last)
    /\ last.op = "delete_task"
    /\ file # Truncated
    /\ file.exists
    /\ Len(file.data) = Len(task_list) + 1

\* C16: construction on a missing file gives the empty collection and no
\* error; on a file whose records all have the five fields it gives those
\* records in file order; on a file with a record that lacks a field it
\* raises and gives no collection.
C16_LoadFollowsFile ==
    [][last'.op = "__init__" =>
       /\ ~file.exists => (last'.ret = "None" /\ task_list' = <<>>)
       /\ (file.exists /\ \A i \in 1..Len(file.data) : TaskKeys \subseteq DOMAIN file.data[i])
          => (last'.ret = "None" /\ Dump(task_list') = file.data)
       /\ (file.exists /\ \E i \in 1..Len(file.data) : ~(TaskKeys \subseteq DOMAIN file.data[i]))
          => (last'.ret # "None" /\ task_list' = <<>>)]_vars

\* C18: once the menu loop has ended through the exit choice, tasks.json
\* exists and holds exactly the in-memory collection, whatever menu
\* actions came before.
C18_ExitHasPersisted ==
    last.op = "exit" => (file.exists /\ file.data = Dump(task_list))

\* The loop has ended through exit with a completed task in the collection.
C18_Witness ==
    /\ last.op = "exit"
    /\ \E i \in 1..Len(task_list) : task_list[i].status = "Completed"

====
